---- MODULE Spec2Model ----
(***************************************************************************)
(* Fake-background yield estimation of VHiggs/test/plotting/analysis.py:   *)
(* estimate_fake_sum(fr1, fr2, fr12s, fr12en) and its two local helpers,    *)
(* get_rel_counting_err and compute_errors.                                 *)
(*                                                                          *)
(* Numbers.  The code computes with Python floats and with the values of    *)
(* the `uncertainties` package.  Here a number is an exact fraction         *)
(* <<numerator, denominator>> in lowest terms with a positive denominator,  *)
(* so that equal numbers are equal tuples.  A value with uncertainty is a   *)
(* nominal value together with its derivative with respect to every         *)
(* independent Variable (one is created by every ufloat((v, s)) call), as   *)
(* the package keeps it.  A Variable's std_dev is sqrt(number)/number, an   *)
(* irrational in general, so the model records its square, 1/number, and    *)
(* the square of std_dev() of a result, which is the sum over the           *)
(* Variables of (derivative * std_dev)^2; std_dev() is its non-negative     *)
(* square root.                                                             *)
(***************************************************************************)
EXTENDS Integers, Sequences, FiniteSets, TLC

\* one call of estimate_fake_sum
VARIABLES pc, fr1, fr2, fr12s, fr12en, sigma2,
          fake1est, fake2est, double_est, total_yield, raised

\* the bin loop of the driver (lines 516-552)
VARIABLES drv, i, data, all_fakes, visited, set_count, seen

\* the correction of the ZZ and WZ histograms (lines 433-465)
VARIABLES to_correct, plotter, corrected_mc_histos

\* the configuration unpacked in lines 107-128 and 167, the region selections
\* of one variable (lines 198-278), and an event of the ntuple
VARIABLES cfg, selections, event, selected

\* a Z -> ee candidate and the outcome of build_zee_selection
VARIABLES candidate, zee

\* the shape output of the driver (lines 100-176, 603-629): the configuration,
\* the loop iterations still to run, the mass loop's position, the calls of
\* shape_file.mkdir so far, and whether the driver has stopped on an error
VARIABLES shape_cfg, todo, mass_at, mkdirs, shape_raised

\* data8TeV.py at import (lines 12-14, 200-255): the two module dictionaries,
\* the position in the six build_data_set blocks, the pair returned by the
\* current call, and a run number under consideration
VARIABLES datadefs, data_name_map, pd_at, step, data_pd, list_pd, run

estVars == <<pc, fr1, fr2, fr12s, fr12en, sigma2,
             fake1est, fake2est, double_est, total_yield, raised>>
drvVars == <<drv, i, data, all_fakes, visited, set_count, seen>>
mcVars == <<to_correct, plotter, corrected_mc_histos>>
selVars == <<cfg, selections, event, selected>>
zeeVars == <<candidate, zee>>
shapeVars == <<shape_cfg, todo, mass_at, mkdirs, shape_raised>>
dsVars == <<datadefs, data_name_map, pd_at, step, data_pd, list_pd, run>>

vars == <<estVars, drvVars, mcVars, selVars, zeeVars, shapeVars, dsVars>>

-----------------------------------------------------------------------------
(* Bounds of the inputs *)

\* largest event count of a control region in one bin
MaxCount == 2
\* largest extrapolated yield (a weighted sum of events) in one bin
MaxEst == 2
\* number of bins of a histogram, underflow and overflow bins not counted
NbinsX == 1

-----------------------------------------------------------------------------
(* Exact fractions standing for the floats of the code *)

Abs(x) == IF x < 0 THEN 0 - x ELSE x

RECURSIVE GCD(_, _)
GCD(a, b) == IF b = 0 THEN a ELSE GCD(b, a % b)

\* the fraction n/d (d # 0) in lowest terms, denominator positive
Rat(n, d) ==
    LET g == GCD(Abs(n), Abs(d))
        s == IF d < 0 THEN 0 - 1 ELSE 1
    IN  <<(s * n) \div g, (s * d) \div g>>

Num(k) == <<k, 1>>
RAdd(a, b) == Rat(a[1] * b[2] + b[1] * a[2], a[2] * b[2])
RSub(a, b) == Rat(a[1] * b[2] - b[1] * a[2], a[2] * b[2])
RMul(a, b) == Rat(a[1] * b[1], a[2] * b[2])
\* a / b, b # 0
RDiv(a, b) == Rat(a[1] * b[2], a[2] * b[1])
RIsZero(a) == a[1] = 0
RLeq(a, b) == a[1] * b[2] <= b[1] * a[2]

-----------------------------------------------------------------------------
(* Values with uncertainty (uncertainties.ufloat, AffineScalarFunc) *)

\* The independent Variables one call of estimate_fake_sum can create, named
\* by the ufloat(...) call that creates them.
Variables == {"fr1.zero", "fr1.en", "fr1.123en",
              "fr2.zero", "fr2.en", "fr2.123en", "fr12en"}

NoDerivatives == [v \in Variables |-> Num(0)]

\* a plain number used in arithmetic with a value with uncertainty
UConst(c) == [nominal_value |-> c, derivatives |-> NoDerivatives]

\* ufloat((nominal, std)): a new independent Variable v
UVariable(v, nominal) ==
    [nominal_value |-> nominal,
     derivatives |-> [w \in Variables |-> IF w = v THEN Num(1) ELSE Num(0)]]

\* number * value
UScale(c, u) ==
    [nominal_value |-> RMul(c, u.nominal_value),
     derivatives |-> [v \in Variables |-> RMul(c, u.derivatives[v])]]

UAdd(a, b) ==
    [nominal_value |-> RAdd(a.nominal_value, b.nominal_value),
     derivatives |-> [v \in Variables |-> RAdd(a.derivatives[v], b.derivatives[v])]]

USub(a, b) ==
    [nominal_value |-> RSub(a.nominal_value, b.nominal_value),
     derivatives |-> [v \in Variables |-> RSub(a.derivatives[v], b.derivatives[v])]]

\* value * value: d(ab) = a db + b da
UMul(a, b) ==
    [nominal_value |-> RMul(a.nominal_value, b.nominal_value),
     derivatives |-> [v \in Variables |->
         RAdd(RMul(a.nominal_value, b.derivatives[v]),
              RMul(b.nominal_value, a.derivatives[v]))]]

\* value / value (nominal value of b not 0): d(a/b) = da/b - a db/b^2
UDiv(a, b) ==
    [nominal_value |-> RDiv(a.nominal_value, b.nominal_value),
     derivatives |-> [v \in Variables |->
         RSub(RDiv(a.derivatives[v], b.nominal_value),
              RDiv(RMul(a.nominal_value, b.derivatives[v]),
                   RMul(b.nominal_value, b.nominal_value)))]]

RECURSIVE SumSq(_, _, _)
SumSq(u, s2, vs) ==
    IF vs = {} THEN Num(0)
    ELSE LET v == CHOOSE x \in vs : TRUE
         IN  RAdd(RMul(RMul(u.derivatives[v], u.derivatives[v]), s2[v]),
                  SumSq(u, s2, vs \ {v}))

\* the square of u.std_dev(), given the squares s2 of the Variables' std_dev
Variance(u, s2) == SumSq(u, s2, Variables)

-----------------------------------------------------------------------------
(* estimate_fake_sum *)

\* Outcome of a step that may raise: the exception ("none" if it returned),
\* the value returned and the Variables it created with their std_dev squared.
Returned(value, created) == [raises |-> "none", value |-> value, created |-> created]
Raised(exception) == [raises |-> exception, value |-> UConst(Num(0)), created |-> <<>>]

\* Mutant: the square root of a negative number is not refused.
get_rel_counting_err_unchecked(number, v) ==
    IF number = 0 THEN Raised("ZeroDivisionError")
    ELSE Returned(UVariable(v, Num(1)), v :> Rat(1, number))

\* get_rel_counting_err(number), the Variable it creates being v:
\* ufloat((1.0, math.sqrt(number)/number)).  math.sqrt raises ValueError on a
\* negative number, and 0.0/0 raises ZeroDivisionError.
get_rel_counting_err(number, v) ==
    IF number < 0 THEN Raised("ValueError")
    ELSE IF number = 0 THEN Raised("ZeroDivisionError")
    ELSE Returned(UVariable(v, Num(1)), v :> Rat(1, number))

\* Mutant: the fraction is taken over the triple-fake count '123en' instead
\* of the region's own count 'en'.
qcd_fraction_over_123en(fakerate, enriched_region_error, qcd_in_enriched_region_error) ==
    UDiv(UScale(Num(fakerate.n123), qcd_in_enriched_region_error),
         UScale(Num(fakerate.n123en), enriched_region_error))

\* qcd_fraction of compute_errors, from the two relative counting errors
qcd_fraction(fakerate, enriched_region_error, qcd_in_enriched_region_error) ==
    UDiv(UScale(Num(fakerate.n123), qcd_in_enriched_region_error),
         UScale(Num(fakerate.en), enriched_region_error))

\* Mutant: the EWK and QCD estimates are weighted the wrong way round.
est_yield_swapped(fakerate, enriched_region_error, fraction) ==
    UMul(enriched_region_error,
         UAdd(UScale(Num(fakerate.qcd_s), USub(UConst(Num(1)), fraction)),
              UScale(Num(fakerate.ewk_s), fraction)))

\* est_yield of compute_errors
est_yield(fakerate, enriched_region_error, fraction) ==
    UMul(enriched_region_error,
         UAdd(UScale(Num(fakerate.ewk_s), USub(UConst(Num(1)), fraction)),
              UScale(Num(fakerate.qcd_s), fraction)))

\* Mutant: no early return for an empty enriched region.
compute_errors_unguarded(fakerate, tag) ==
    LET e == get_rel_counting_err(fakerate.en, tag \o ".en")
        q == get_rel_counting_err(fakerate.n123en, tag \o ".123en")
    IN  IF e.raises # "none" THEN e
        ELSE IF q.raises # "none" THEN q
        ELSE Returned(est_yield(fakerate, e.value,
                                qcd_fraction(fakerate, e.value, q.value)),
                      e.created @@ q.created)

\* Mutant: the counting error of '123en' is one Variable shared by the two
\* regions instead of a new one per call of get_rel_counting_err.
compute_errors_shared_123en(fakerate, tag) ==
    IF fakerate.en = 0
    THEN Returned(UVariable(tag \o ".zero", Num(0)), (tag \o ".zero") :> Num(0))
    ELSE LET e == get_rel_counting_err(fakerate.en, tag \o ".en")
             q == get_rel_counting_err(fakerate.n123en, "fr1.123en")
         IN  IF e.raises # "none" THEN e
             ELSE IF q.raises # "none" THEN q
             ELSE Returned(est_yield(fakerate, e.value,
                                     qcd_fraction(fakerate, e.value, q.value)),
                           e.created @@ q.created)

\* compute_errors(fakerate), for the region named tag ("fr1" or "fr2")
compute_errors(fakerate, tag) ==
    IF fakerate.en = 0
    THEN Returned(UVariable(tag \o ".zero", Num(0)), (tag \o ".zero") :> Num(0))
    ELSE LET e == get_rel_counting_err(fakerate.en, tag \o ".en")
             q == get_rel_counting_err(fakerate.n123en, tag \o ".123en")
         IN  IF e.raises # "none" THEN e
             ELSE IF q.raises # "none" THEN q
             ELSE Returned(est_yield(fakerate, e.value,
                                     qcd_fraction(fakerate, e.value, q.value)),
                           e.created @@ q.created)

\* Mutant: the test is on the estimate fr12s instead of the count fr12en.
double_estimate_tests_estimate(s, en) ==
    IF s = 0 THEN Returned(UConst(Num(0)), <<>>)
    ELSE LET c == get_rel_counting_err(en, "fr12en")
         IN  IF c.raises # "none" THEN c
             ELSE Returned(UScale(Num(s), c.value), c.created)

\* Mutant: the counting error is not scaled by the estimate.
double_estimate_unscaled(s, en) ==
    IF en = 0 THEN Returned(UConst(Num(0)), <<>>)
    ELSE get_rel_counting_err(en, "fr12en")

\* lines 72-74: double_est
double_estimate(s, en) ==
    IF en = 0 THEN Returned(UConst(Num(0)), <<>>)
    ELSE LET c == get_rel_counting_err(en, "fr12en")
         IN  IF c.raises # "none" THEN c
             ELSE Returned(UScale(Num(s), c.value), c.created)

\* Mutant: the double-object estimate is added instead of subtracted.
total_double_added(f1, f2, d) == UAdd(UAdd(f1, f2), d)

\* Mutant: the second region's estimate is subtracted too.
total_second_subtracted(f1, f2, d) == USub(USub(f1, f2), d)

\* line 76: total_yield
total(f1, f2, d) == USub(UAdd(f1, f2), d)

-----------------------------------------------------------------------------
(* The whole call as one function: lines 70-77 *)

estimate_fake_sum(r1, r2, s, n) ==
    LET a == compute_errors(r1, "fr1")
        b == compute_errors(r2, "fr2")
        d == double_estimate(s, n)
    IN  IF a.raises # "none" THEN a
        ELSE IF b.raises # "none" THEN b
        ELSE IF d.raises # "none" THEN d
        ELSE Returned(total(a.value, b.value, d.value),
                      a.created @@ b.created @@ d.created)

-----------------------------------------------------------------------------
(* Inputs *)

\* bin contents as the histograms can hold them, negative ones included
Counts == (0 - 1) .. MaxCount
Estimates == (0 - 1) .. MaxEst

\* the dictionaries fr1 and fr2; n123 and n123en are the entries '123' and '123en'
Regions == [en : Counts, ewk_s : Estimates, qcd_s : Estimates,
            n123 : Estimates, n123en : Counts]

\* With any region of Regions the other region of the call is one of two: an
\* empty enriched region whose other entries are not zero, and a populated one.
Partners ==
    { [en |-> 0, ewk_s |-> 1, qcd_s |-> 1, n123 |-> 1, n123en |-> 0],
      [en |-> 2, ewk_s |-> 1, qcd_s |-> 0, n123 |-> 1, n123en |-> 1] }

\* The double-object pair <<fr12s, fr12en>> that goes with any region is one
\* of two: an empty doubly-enriched region with a non-zero estimate, and a
\* populated one.  With the regions of Partners, every pair is tried.
Doubles == { <<1, 0>>, <<1, 2>> }

\* the regions of the worked example: counts of 100 and 50 events
Scenario1 == [en |-> 100, ewk_s |-> 10, qcd_s |-> 20, n123 |-> 5, n123en |-> 50]
Scenario2 == [en |-> 0, ewk_s |-> 7, qcd_s |-> 3, n123 |-> 2, n123en |-> 50]

NoRegion == [en |-> 0, ewk_s |-> 0, qcd_s |-> 0, n123 |-> 0, n123en |-> 0]

NoSigma2 == [v \in Variables |-> Num(0)]

NoException == [exception |-> "none", at |-> "none"]

-----------------------------------------------------------------------------
(* The call as a state machine: one step per statement of estimate_fake_sum *)

\* the bins of a histogram: 0 is the underflow bin, NbinsX + 1 the overflow bin
Bins == 0 .. (NbinsX + 1)

\* a histogram after Reset(): bin contents and bin errors (squared) all 0
EmptyHisto == [b \in Bins |-> [content |-> Num(0), error |-> Num(0)]]

NoData == [fr1en |-> 0, fr1s_ewk |-> 0, fr1s_qcd |-> 0, fr123en1_qcd |-> 0,
           fr2en |-> 0, fr2s_ewk |-> 0, fr2s_qcd |-> 0, fr123en2_qcd |-> 0,
           fr123en |-> 0, fr12s_qcd |-> 0, fr12en |-> 0]

\* no call of estimate_fake_sum is in progress
EstIdle ==
    /\ pc = "idle"
    /\ fr1 = NoRegion /\ fr2 = NoRegion /\ fr12s = 0 /\ fr12en = 0
    /\ sigma2 = NoSigma2
    /\ fake1est = UConst(Num(0)) /\ fake2est = UConst(Num(0))
    /\ double_est = UConst(Num(0)) /\ total_yield = UConst(Num(0))
    /\ raised = NoException

\* the parts of the driver a specification leaves out
DrvOff ==
    /\ drv = "off" /\ i = 0 /\ data = NoData /\ all_fakes = EmptyHisto
    /\ visited = <<>> /\ set_count = [b \in Bins |-> 0] /\ seen = <<>>

McOff == to_correct = 0 /\ plotter = <<>> /\ corrected_mc_histos = <<>>

SelOff == cfg = <<>> /\ selections = <<>> /\ event = {} /\ selected = {}

ZeeOff == candidate = <<>> /\ zee = <<>>

ShapeOff ==
    /\ shape_cfg = <<>> /\ todo = <<>> /\ mass_at = 0 /\ mkdirs = <<>>
    /\ shape_raised = FALSE

DsOff ==
    /\ datadefs = <<>> /\ data_name_map = <<>> /\ pd_at = 0 /\ step = "off"
    /\ data_pd = <<>> /\ list_pd = <<>> /\ run = 0

Init == EstIdle /\ DrvOff /\ McOff /\ SelOff /\ ZeeOff /\ ShapeOff /\ DsOff

Enter(r1, r2, s, n) ==
    /\ fr1' = r1 /\ fr2' = r2 /\ fr12s' = s /\ fr12en' = n
    /\ sigma2' = NoSigma2
    /\ fake1est' = UConst(Num(0)) /\ fake2est' = UConst(Num(0))
    /\ double_est' = UConst(Num(0)) /\ total_yield' = UConst(Num(0))
    /\ raised' = NoException
    /\ pc' = "fake1est"

\* line 548: estimate_fake_sum(fake1, fake2, doubles, doubles_en) is called
Call ==
    /\ pc = "idle"
    /\ \/ \E r \in Regions, p \in Partners, swap \in BOOLEAN, d \in Doubles :
               IF swap THEN Enter(p, r, d[1], d[2]) ELSE Enter(r, p, d[1], d[2])
       \/ \E p1 \in Partners, p2 \in Partners, s \in Estimates, n \in Counts :
               Enter(p1, p2, s, n)
       \/ Enter(Scenario1, Scenario2, 0, 0)
    /\ UNCHANGED <<drvVars, mcVars, selVars, zeeVars, shapeVars, dsVars>>

\* the Variables created so far, with the squares of their std_dev
Record(created) ==
    [v \in Variables |-> IF v \in DOMAIN created THEN created[v] ELSE sigma2[v]]

Raise(r, at) ==
    /\ raised' = [exception |-> r.raises, at |-> at]
    /\ pc' = "raised"

\* Mutant: compute_errors changes an entry of the dictionary it is given.
Fake1_writes_fr1 ==
    /\ pc = "fake1est"
    /\ LET r == compute_errors(fr1, "fr1")
       IN  IF r.raises # "none"
           THEN /\ Raise(r, "fake1est")
                /\ UNCHANGED <<fake1est, sigma2>>
           ELSE /\ fake1est' = r.value /\ sigma2' = Record(r.created)
                /\ pc' = "fake2est" /\ UNCHANGED raised
    /\ fr1' = [fr1 EXCEPT !.ewk_s = 0]
    /\ UNCHANGED <<fr2, fr12s, fr12en, fake2est, double_est, total_yield>>
    /\ UNCHANGED <<drvVars, mcVars, selVars, zeeVars, shapeVars, dsVars>>

\* line 70: fake1est = compute_errors(fr1)
Fake1 ==
    /\ pc = "fake1est"
    /\ LET r == compute_errors(fr1, "fr1")
       IN  IF r.raises # "none"
           THEN /\ Raise(r, "fake1est")
                /\ UNCHANGED <<fake1est, sigma2>>
           ELSE /\ fake1est' = r.value /\ sigma2' = Record(r.created)
                /\ pc' = "fake2est" /\ UNCHANGED raised
    /\ UNCHANGED <<fr1, fr2, fr12s, fr12en, fake2est, double_est, total_yield>>
    /\ UNCHANGED <<drvVars, mcVars, selVars, zeeVars, shapeVars, dsVars>>

\* line 71: fake2est = compute_errors(fr2)
Fake2 ==
    /\ pc = "fake2est"
    /\ LET r == compute_errors(fr2, "fr2")
       IN  IF r.raises # "none"
           THEN /\ Raise(r, "fake2est")
                /\ UNCHANGED <<fake2est, sigma2>>
           ELSE /\ fake2est' = r.value /\ sigma2' = Record(r.created)
                /\ pc' = "double_est" /\ UNCHANGED raised
    /\ UNCHANGED <<fr1, fr2, fr12s, fr12en, fake1est, double_est, total_yield>>
    /\ UNCHANGED <<drvVars, mcVars, selVars, zeeVars, shapeVars, dsVars>>

\* lines 72-74: double_est
Double ==
    /\ pc = "double_est"
    /\ LET r == double_estimate(fr12s, fr12en)
       IN  IF r.raises # "none"
           THEN /\ Raise(r, "double_est")
                /\ UNCHANGED <<double_est, sigma2>>
           ELSE /\ double_est' = r.value /\ sigma2' = Record(r.created)
                /\ pc' = "total_yield" /\ UNCHANGED raised
    /\ UNCHANGED <<fr1, fr2, fr12s, fr12en, fake1est, fake2est, total_yield>>
    /\ UNCHANGED <<drvVars, mcVars, selVars, zeeVars, shapeVars, dsVars>>

\* lines 76-77: total_yield is computed and returned
Total ==
    /\ pc = "total_yield"
    /\ total_yield' = total(fake1est, fake2est, double_est)
    /\ pc' = "done"
    /\ UNCHANGED <<fr1, fr2, fr12s, fr12en, sigma2, fake1est, fake2est,
                   double_est, raised>>
    /\ UNCHANGED <<drvVars, mcVars, selVars, zeeVars, shapeVars, dsVars>>

Next == Call \/ Fake1 \/ Fake2 \/ Double \/ Total

Spec == Init /\ [][Next]_vars

-----------------------------------------------------------------------------
(* Where the call is *)

\* compute_errors(fr1) has returned
Returned1 ==
    \/ pc \in {"fake2est", "double_est", "total_yield", "done"}
    \/ pc = "raised" /\ raised.at # "fake1est"

\* compute_errors(fr2) has returned
Returned2 ==
    \/ pc \in {"double_est", "total_yield", "done"}
    \/ pc = "raised" /\ raised.at = "double_est"

\* lines 72-74 have run
ReturnedDouble == pc \in {"total_yield", "done"}

\* the call has ended, by a return or by an exception
Ended == pc \in {"done", "raised"}

\* the state machine and the function agree
StepsAgree ==
    Ended =>
       LET o == estimate_fake_sum(fr1, fr2, fr12s, fr12en)
       IN  /\ o.raises = raised.exception
           /\ pc = "done" => /\ o.value = total_yield
                             /\ \A v \in DOMAIN o.created : o.created[v] = sigma2[v]

-----------------------------------------------------------------------------
(* Claims *)

IsZero(u) == u.nominal_value = Num(0) /\ Variance(u, sigma2) = Num(0)

\* C1: a single-object region whose enriched count 'en' is 0 contributes
\* exactly value 0 with uncertainty 0, without an exception, whatever its
\* other entries are.
C1_EmptyRegionIsZero ==
    /\ (fr1.en = 0 /\ (Returned1 \/ Ended)) =>
          (raised.at # "fake1est" /\ IsZero(fake1est))
    /\ (fr2.en = 0 /\ (Returned2 \/ (pc = "raised" /\ raised.at = "fake2est"))) =>
          (raised.at # "fake2est" /\ IsZero(fake2est))

\* C1 witness: an empty region with non-zero, even negative, other entries
\* has contributed zero
C1_Witness ==
    /\ pc = "done" /\ fr1.en = 0
    /\ fr1.ewk_s > 0 /\ fr1.qcd_s > 0 /\ fr1.n123 > 0 /\ fr1.n123en < 0
    /\ IsZero(fake1est)

\* C2: the double-object contribution is exactly zero (value and error) when
\* fr12en = 0, for any fr12s; when fr12en = n > 0 its value is fr12s and the
\* square of its standard deviation is fr12s^2 / n, which for fr12s >= 0 is
\* the standard deviation fr12s * sqrt(n)/n.
C2_DoubleContribution ==
    /\ (fr12en = 0 /\ (ReturnedDouble \/ (pc = "raised" /\ raised.at = "double_est")))
          => (pc # "raised" /\ IsZero(double_est))
    /\ (fr12en > 0 /\ (ReturnedDouble \/ (pc = "raised" /\ raised.at = "double_est")))
          => /\ pc # "raised"
             /\ double_est.nominal_value = Num(fr12s)
             /\ Variance(double_est, sigma2) = Rat(fr12s * fr12s, fr12en)

\* C2 witness: both cases of the double term are seen through the run: here
\* a count of 2 with a non-zero estimate
C2_Witness ==
    /\ pc = "done" /\ fr12en = 2 /\ fr12s = 1
    /\ double_est.nominal_value = Num(1)
    /\ Variance(double_est, sigma2) = Rat(1, 2)

\* C3: the nominal value returned is region 1's estimate plus region 2's
\* estimate minus the double-object estimate.
C3_NominalIsSumMinusDouble ==
    pc = "done" =>
       total_yield.nominal_value =
          RSub(RAdd(fake1est.nominal_value, fake2est.nominal_value),
               double_est.nominal_value)

\* C3 witness: a return where all three terms are non-zero
C3_Witness ==
    /\ pc = "done"
    /\ ~RIsZero(fake1est.nominal_value)
    /\ ~RIsZero(fake2est.nominal_value)
    /\ ~RIsZero(double_est.nominal_value)

\* the central value of the QCD fraction of a region whose two counting
\* errors exist
FractionNominal(fakerate, tag) ==
    qcd_fraction(fakerate,
                 get_rel_counting_err(fakerate.en, tag \o ".en").value,
                 get_rel_counting_err(fakerate.n123en, tag \o ".123en").value
                ).nominal_value

\* (1 - F) * ewk_s + F * qcd_s with F = '123' / 'en'
MixOf(fakerate) ==
    LET F == Rat(fakerate.n123, fakerate.en)
    IN  RAdd(RMul(RSub(Num(1), F), Num(fakerate.ewk_s)),
             RMul(F, Num(fakerate.qcd_s)))

\* C4: for a region with en > 0 whose estimate is returned, the central value
\* of the QCD fraction F is '123' / 'en' and the central value of the estimate
\* is (1 - F) * ewk_s + F * qcd_s.
C4_RegionCentralValue ==
    /\ (Returned1 /\ fr1.en > 0) =>
          /\ FractionNominal(fr1, "fr1") = Rat(fr1.n123, fr1.en)
          /\ fake1est.nominal_value = MixOf(fr1)
    /\ (Returned2 /\ fr2.en > 0) =>
          /\ FractionNominal(fr2, "fr2") = Rat(fr2.n123, fr2.en)
          /\ fake2est.nominal_value = MixOf(fr2)

\* C4 witness: a region with a fraction strictly between 0 and 1 and
\* different EWK and QCD estimates
C4_Witness ==
    /\ pc = "done" /\ fr1.en = 2 /\ fr1.n123 = 1 /\ fr1.n123en = 2
    /\ fr1.ewk_s = 0 /\ fr1.qcd_s = 1
    /\ fake1est.nominal_value = Rat(1, 2)

InScenario == fr1 = Scenario1 /\ fr2 = Scenario2 /\ fr12s = 0 /\ fr12en = 0

\* C5 as stated: in the worked example region 2 and the double term contribute
\* exactly 0, region 1's QCD fraction is 0.1, and the nominal value returned is
\* 11.0 with a non-zero standard deviation.
C5_ScenarioAsStated ==
    (InScenario /\ pc = "done") =>
       /\ IsZero(fake2est) /\ IsZero(double_est)
       /\ FractionNominal(fr1, "fr1") = Rat(1, 10)
       /\ total_yield.nominal_value = Num(11)
       /\ Variance(total_yield, sigma2) # Num(0)

\* C5 amended: in the worked example region 2 and the double term contribute
\* exactly 0, region 1's QCD fraction is 5/100 = 0.05, and the nominal value
\* returned is 0.95*10 + 0.05*20 = 10.5, with a non-zero standard deviation
\* (its square is 201/200).
C5_ScenarioAmended ==
    (InScenario /\ Ended) =>
       /\ pc = "done"
       /\ IsZero(fake2est) /\ IsZero(double_est)
       /\ FractionNominal(fr1, "fr1") = Rat(5, 100)
       /\ total_yield.nominal_value = Rat(21, 2)
       /\ Variance(total_yield, sigma2) = Rat(201, 200)

\* C5 witness: the worked example has returned
C5_Witness == InScenario /\ pc = "done" /\ fake1est.nominal_value = Rat(21, 2)

PureQCD(fakerate) ==
    fakerate.en > 0 /\ fakerate.n123en = fakerate.en /\ fakerate.n123 = fakerate.en

\* C6: when en = 123en and 123 = en, with en > 0, the QCD fraction's central
\* value is 1 and the region estimate's central value is qcd_s, whatever
\* ewk_s is.
C6_PureQCD ==
    /\ (PureQCD(fr1) /\ (Returned1 \/ Ended)) =>
          /\ raised.at # "fake1est"
          /\ FractionNominal(fr1, "fr1") = Num(1)
          /\ fake1est.nominal_value = Num(fr1.qcd_s)
    /\ (PureQCD(fr2) /\ Returned2) =>
          /\ FractionNominal(fr2, "fr2") = Num(1)
          /\ fake2est.nominal_value = Num(fr2.qcd_s)

\* C6 witness: a pure-QCD region of two events whose EWK estimate differs
\* from its QCD estimate
C6_Witness ==
    /\ pc = "done" /\ PureQCD(fr1) /\ fr1.en = 2
    /\ fr1.ewk_s = 1 /\ fr1.qcd_s = 2
    /\ fake1est.nominal_value = Num(2)

BothEmpty == fr1.en = 0 /\ fr2.en = 0 /\ fr12en = 0

\* C8: when both regions have en = 0 and fr12en = 0 the call returns nominal
\* value 0 and standard deviation 0, whatever the other entries and fr12s are.
C8_AllEmptyIsZero ==
    (BothEmpty /\ pc # "idle") =>
       /\ pc # "raised"
       /\ pc = "done" => IsZero(total_yield)

\* C8 witness: all three empty, with non-zero other entries and a non-zero
\* fr12s
C8_Witness ==
    /\ pc = "done" /\ BothEmpty
    /\ fr1.ewk_s # 0 /\ fr2.ewk_s # 0 /\ fr1.n123 # 0 /\ fr12s # 0
    /\ IsZero(total_yield)

\* the call with the two regions exchanged
Swapped == estimate_fake_sum(fr2, fr1, fr12s, fr12en)

\* C9: the call with region1 and region2 exchanged returns the same nominal
\* value; and when the two regions have equal entries it returns the same
\* nominal value and standard deviation.
C9_Symmetry ==
    pc = "done" =>
       /\ Swapped.raises = "none"
       /\ Swapped.value.nominal_value = total_yield.nominal_value
       /\ fr1 = fr2 =>
             Variance(Swapped.value, Record(Swapped.created))
                = Variance(total_yield, sigma2)

\* C9 witness: a return with two regions whose estimates differ
C9_Witness ==
    /\ pc = "done"
    /\ fake1est.nominal_value # fake2est.nominal_value
    /\ ~RIsZero(fake1est.nominal_value) /\ ~RIsZero(fake2est.nominal_value)

\* a supplied estimate is negative
NegativeEstimate ==
    \/ fr12s < 0
    \/ \E r \in {fr1, fr2} : r.ewk_s < 0 \/ r.qcd_s < 0 \/ r.n123 < 0

\* C10: a call with a negative fr12s, or a negative ewk_s, qcd_s or '123' in
\* either region, is rejected: it returns no estimate.
C10_NegativeEstimateRejected ==
    NegativeEstimate => pc # "done"

\* a supplied count is negative
NegativeCount ==
    \/ fr12en < 0
    \/ \E r \in {fr1, fr2} : r.en < 0 \/ r.n123en < 0

\* C11: a call with a negative 'en' or '123en' in either region, or a negative
\* fr12en, ends in an error and returns no estimate.
C11_NegativeCountRejected ==
    NegativeCount => pc # "done"

\* C14: the square of the standard deviation of the value returned is the sum
\* of the squares of the standard deviations of the two region estimates and
\* of the double-object estimate.
C14_QuadratureSum ==
    pc = "done" =>
       Variance(total_yield, sigma2) =
          RAdd(RAdd(Variance(fake1est, sigma2), Variance(fake2est, sigma2)),
               Variance(double_est, sigma2))

\* C14 witness: a return from non-negative inputs where both regions were
\* built from the same non-zero '123en' and all three terms have a non-zero
\* standard deviation
C14_Witness ==
    /\ pc = "done" /\ ~NegativeEstimate
    /\ fr1.n123en = fr2.n123en /\ fr1.n123en > 0
    /\ fake1est.derivatives["fr1.123en"] # Num(0)
    /\ fake2est.derivatives["fr2.123en"] # Num(0)
    /\ Variance(double_est, sigma2) # Num(0)

\* the inputs the contract allows: no count and no estimate is negative
ValidInputs == ~NegativeCount /\ ~NegativeEstimate

\* C19: from valid inputs, a region with en > 0 whose estimate is returned has
\* a QCD fraction with central value in [0, 1], and the central value of its
\* estimate lies between ewk_s and qcd_s.
Between(x, a, b) ==
    \/ RLeq(Num(a), x) /\ RLeq(x, Num(b))
    \/ RLeq(Num(b), x) /\ RLeq(x, Num(a))

FractionInUnitInterval(fakerate, tag) ==
    /\ RLeq(Num(0), FractionNominal(fakerate, tag))
    /\ RLeq(FractionNominal(fakerate, tag), Num(1))

C19_FractionInUnitInterval ==
    ValidInputs =>
       /\ (Returned1 /\ fr1.en > 0) =>
             /\ FractionInUnitInterval(fr1, "fr1")
             /\ Between(fake1est.nominal_value, fr1.ewk_s, fr1.qcd_s)
       /\ (Returned2 /\ fr2.en > 0) =>
             /\ FractionInUnitInterval(fr2, "fr2")
             /\ Between(fake2est.nominal_value, fr2.ewk_s, fr2.qcd_s)

\* C19 amended: from valid inputs, a region with en > 0 whose estimate is
\* returned has a QCD fraction with central value '123'/'en' >= 0, which is
\* <= 1 exactly when '123' <= 'en'; when '123' <= 'en' the central value of
\* its estimate lies between ewk_s and qcd_s.
FractionAsComputed(fakerate, tag, est) ==
    /\ RLeq(Num(0), FractionNominal(fakerate, tag))
    /\ RLeq(FractionNominal(fakerate, tag), Num(1)) <=> fakerate.n123 <= fakerate.en
    /\ fakerate.n123 <= fakerate.en =>
          Between(est.nominal_value, fakerate.ewk_s, fakerate.qcd_s)

C19_FractionAmended ==
    ValidInputs =>
       /\ (Returned1 /\ fr1.en > 0) => FractionAsComputed(fr1, "fr1", fake1est)
       /\ (Returned2 /\ fr2.en > 0) => FractionAsComputed(fr2, "fr2", fake2est)

\* C19 witness: a returned region with '123' < 'en' and different EWK and
\* QCD estimates: fraction 1/2, estimate half way between the two
C19_Witness ==
    /\ pc = "done" /\ ValidInputs
    /\ fr1.en = 2 /\ fr1.n123 = 1 /\ fr1.ewk_s = 2 /\ fr1.qcd_s = 0
    /\ fake1est.nominal_value = Num(1)

\* The other case: a fraction above 1 and an estimate outside the
\* two estimates
C19_AboveOne ==
    /\ pc = "done" /\ ValidInputs
    /\ fr1.en = 1 /\ fr1.n123 = 2 /\ fr1.ewk_s = 1 /\ fr1.qcd_s = 2
    /\ fake1est.nominal_value = Num(3)

\* C20: from valid inputs the call returns a value and raises nothing, also
\* when a region has en > 0 and '123en' = 0.
C20_TotalOnValidInputs ==
    ValidInputs => pc # "raised"

-----------------------------------------------------------------------------
(* The bin loop of the driver: lines 516-552 *)

\* The contents of one bin of the eleven data histograms the loop reads.  The
\* four enriched regions are empty or populated; the weighted yields are fixed.
DataBins ==
    { [fr1en |-> a, fr1s_ewk |-> 1, fr1s_qcd |-> MaxEst, fr123en1_qcd |-> 1,
       fr2en |-> b, fr2s_ewk |-> MaxEst, fr2s_qcd |-> 1, fr123en2_qcd |-> 1,
       fr123en |-> c, fr12s_qcd |-> 1, fr12en |-> d] :
         a \in {0, MaxCount}, b \in {0, 1}, c \in {0, 1}, d \in {0, MaxCount} }

\* lines 532-538: the dictionary fake1 of a bin
fake1(d) == [en |-> d.fr1en, ewk_s |-> d.fr1s_ewk, qcd_s |-> d.fr1s_qcd,
             n123 |-> d.fr123en1_qcd, n123en |-> d.fr123en]

\* lines 539-545: the dictionary fake2 of a bin
fake2(d) == [en |-> d.fr2en, ewk_s |-> d.fr2s_ewk, qcd_s |-> d.fr2s_qcd,
             n123 |-> d.fr123en2_qcd, n123en |-> d.fr123en]

\* Mutant: the nominal value is written without the clamp.
bin_content_unclamped(u) == u.nominal_value

\* lines 550-551: max(0, total_yield.nominal_value)
bin_content(u) ==
    IF RLeq(u.nominal_value, Num(0)) THEN Num(0) ELSE u.nominal_value

\* the arguments of the call in progress and what it returned
Arguments == <<fr1, fr2, fr12s, fr12en>>
Result == [nominal_value |-> total_yield.nominal_value,
           std_dev2 |-> Variance(total_yield, sigma2)]

\* lines 525-527: all_fakes is a reset copy; the loop starts at bin 0
DriverInit ==
    /\ EstIdle
    /\ drv = "loop" /\ i = 0 /\ data = NoData /\ all_fakes = EmptyHisto
    /\ visited = <<>> /\ set_count = [b \in Bins |-> 0] /\ seen = <<>>
    /\ McOff /\ SelOff /\ ZeeOff /\ ShapeOff /\ DsOff

\* lines 531-549: the next bin's contents are read and estimate_fake_sum is
\* called with them
LoopCall ==
    /\ drv = "loop" /\ pc = "idle" /\ i <= NbinsX + 1
    /\ \E d \in DataBins :
          /\ data' = d
          /\ Enter(fake1(d), fake2(d), d.fr12s_qcd, d.fr12en)
    /\ visited' = Append(visited, i)
    /\ UNCHANGED <<drv, i, all_fakes, set_count, seen>>
    /\ UNCHANGED <<mcVars, selVars, zeeVars, shapeVars, dsVars>>

\* lines 550-552: the bin's content and error are set from the value returned
SetBin ==
    /\ drv = "loop" /\ pc = "done"
    /\ all_fakes' = [all_fakes EXCEPT ![i] =
                        [content |-> bin_content(total_yield),
                         error |-> Variance(total_yield, sigma2)]]
    /\ set_count' = [set_count EXCEPT ![i] = @ + 1]
    /\ seen' = (Arguments :> Result) @@ seen
    /\ i' = i + 1
    /\ pc' = "idle"
    /\ UNCHANGED <<fr1, fr2, fr12s, fr12en, sigma2, fake1est, fake2est,
                   double_est, total_yield, raised>>
    /\ UNCHANGED <<drv, data, visited>>
    /\ UNCHANGED <<mcVars, selVars, zeeVars, shapeVars, dsVars>>

\* line 531: range(0, GetNbinsX() + 2) is exhausted
LoopEnd ==
    /\ drv = "loop" /\ pc = "idle" /\ i = NbinsX + 2
    /\ drv' = "finished"
    /\ UNCHANGED <<i, data, all_fakes, visited, set_count, seen>>
    /\ UNCHANGED <<estVars, mcVars, selVars, zeeVars, shapeVars, dsVars>>

DriverNext == LoopCall \/ Fake1 \/ Fake2 \/ Double \/ Total \/ SetBin \/ LoopEnd

DriverSpec == DriverInit /\ [][DriverNext]_vars

\* the bin written last
LastBin == i - 1
JustSet == drv = "loop" /\ pc = "idle" /\ i > 0

\* C12: estimate_fake_sum returns the signed nominal value and its standard
\* deviation; the driver writes max(0, nominal value) as the bin content and
\* the standard deviation, unchanged, as the bin error; so every bin content
\* of all_fakes is >= 0.
C12_ClampOnlyInDriver ==
    /\ \A b \in Bins : RLeq(Num(0), all_fakes[b].content)
    /\ pc = "done" => total_yield = total(fake1est, fake2est, double_est)
    /\ JustSet =>
          /\ all_fakes[LastBin].content =
                (IF total_yield.nominal_value[1] < 0 THEN Num(0)
                 ELSE total_yield.nominal_value)
          /\ all_fakes[LastBin].error = Variance(total_yield, sigma2)

\* C12 witness: a negative value was returned; the bin holds 0 and the
\* standard deviation of the negative value
C12_Witness ==
    /\ JustSet
    /\ total_yield.nominal_value[1] < 0
    /\ all_fakes[LastBin].content = Num(0)
    /\ all_fakes[LastBin].error = Variance(total_yield, sigma2)
    /\ all_fakes[LastBin].error # Num(0)

\* C13: a call returns what every earlier call with the same arguments
\* returned, whatever calls were made in between, and no step of a call
\* changes the dictionaries fr1 and fr2.
C13_PureFunction ==
    /\ [](pc = "done" /\ Arguments \in DOMAIN seen => Result = seen[Arguments])
    /\ [][pc # "idle" => fr1' = fr1 /\ fr2' = fr2]_vars

\* C13 witness: the third call has returned; its arguments are those of the
\* first call and not those of the second
C13_Witness ==
    /\ drv = "loop" /\ pc = "done" /\ i = 2
    /\ Arguments \in DOMAIN seen /\ Cardinality(DOMAIN seen) = 2
    /\ all_fakes[0].error = Result.std_dev2
    /\ all_fakes[1].error # Result.std_dev2
    /\ Result.std_dev2 # Num(0)

\* the loop is over: range() is exhausted or an exception has ended it
LoopOver == drv = "finished" \/ (drv = "loop" /\ pc = "raised")

AllBinsInOrder == [k \in 1 .. (NbinsX + 2) |-> k - 1]

\* C15: the loop visits the bins 0 .. NbinsX + 1 in increasing order, calls
\* estimate_fake_sum once per bin with region 1 from fr1en, fr1s_ewk, fr1s_qcd,
\* fr123en1_qcd, fr123en, region 2 from fr2en, fr2s_ewk, fr2s_qcd, fr123en2_qcd,
\* fr123en and the double term from fr12s_qcd, fr12en of that bin, and sets
\* every bin's content and error exactly once.
C15_EveryBinOnce ==
    /\ (drv = "loop" /\ pc # "idle") =>
          /\ fr1 = [en |-> data.fr1en, ewk_s |-> data.fr1s_ewk,
                    qcd_s |-> data.fr1s_qcd, n123 |-> data.fr123en1_qcd,
                    n123en |-> data.fr123en]
          /\ fr2 = [en |-> data.fr2en, ewk_s |-> data.fr2s_ewk,
                    qcd_s |-> data.fr2s_qcd, n123 |-> data.fr123en2_qcd,
                    n123en |-> data.fr123en]
          /\ fr12s = data.fr12s_qcd /\ fr12en = data.fr12en
    /\ \A b \in Bins : set_count[b] <= 1
    /\ LoopOver =>
          /\ visited = AllBinsInOrder
          /\ \A b \in Bins : set_count[b] = 1

\* What holds of the loop instead: it does all of the above when no call
\* raises, and stops at the first bin whose call raises.
LoopUntilRaise ==
    /\ drv = "finished" =>
          /\ visited = AllBinsInOrder
          /\ \A b \in Bins : set_count[b] = 1
    /\ (drv = "loop" /\ pc = "raised") =>
          /\ visited = [k \in 1 .. (i + 1) |-> k - 1]
          /\ \A b \in Bins : set_count[b] = (IF b < i THEN 1 ELSE 0)

\* ---------------------------------------------------------------------
\* The corrected MC loop of __main__ (lines 437-465)
\* ---------------------------------------------------------------------

\* line 437
corrected_mc == <<"ZZ", "WZ">>

\* the three histograms of a sample that the loop can ask the plotter for
HistoNames == {"ult", "fr1s_ewk", "fr2s_ewk"}

\* bin contents of the histograms the plotter holds: a flat final
\* histogram, object 1 fakes in the underflow bin, object 2 fakes in the
\* overflow bin
SampleHistos ==
    { [n \in HistoNames |->
          [b \in Bins |->
              CASE n = "ult" -> u
                [] n = "fr1s_ewk" -> (IF b = 0 THEN a ELSE 0)
                [] OTHER -> (IF b = NbinsX + 1 THEN c ELSE 0)]] :
        u \in 0 .. MaxEst, a \in 0 .. MaxEst, c \in 0 .. MaxEst }

\* plotter.get_histogram(sample, ntuple + ':' + plot_base_name + suffix, ...)
get_histogram(sample, suffix) == plotter[sample][suffix]

\* Histo.__sub__: bin by bin
HistoSub(h, g) == [b \in Bins |-> h[b] - g[b]]

McInit ==
    /\ to_correct = 1
    /\ plotter \in [{"ZZ", "WZ"} -> SampleHistos]
    /\ corrected_mc_histos = <<>>
    /\ EstIdle /\ DrvOff /\ SelOff /\ ZeeOff /\ ShapeOff /\ DsOff

\* lines 439-465: one pass of the loop body
CorrectSample ==
    /\ to_correct \in 1 .. Len(corrected_mc)
    /\ LET sample == corrected_mc[to_correct]
           mc_final == get_histogram(sample, "ult")
           mc_fake1_bkg_fr == get_histogram(sample, "fr1s_ewk")
           mc_fake2_bkg_fr == get_histogram(sample, "fr1s_ewk")
           mc_correct == HistoSub(HistoSub(mc_final, mc_fake2_bkg_fr),
                                  mc_fake1_bkg_fr)
       IN  corrected_mc_histos' = Append(corrected_mc_histos, mc_correct)
    /\ to_correct' = to_correct + 1
    /\ UNCHANGED <<plotter, estVars, drvVars, selVars, zeeVars, shapeVars, dsVars>>

McNext == CorrectSample

McSpec == McInit /\ [][McNext]_vars

\* C16: the corrected histogram of each of ZZ and WZ is the sample's 'ult'
\* histogram minus its fr1s_ewk histogram minus its fr2s_ewk histogram.
C16_CorrectedMC ==
    \A k \in 1 .. Len(corrected_mc_histos) :
        \A b \in Bins :
            corrected_mc_histos[k][b] =
                plotter[corrected_mc[k]]["ult"][b]
                  - plotter[corrected_mc[k]]["fr1s_ewk"][b]
                  - plotter[corrected_mc[k]]["fr2s_ewk"][b]

\* What the loop computes instead: 'ult' minus twice fr1s_ewk.
CorrectedAsCoded ==
    \A k \in 1 .. Len(corrected_mc_histos) :
        \A b \in Bins :
            corrected_mc_histos[k][b] =
                plotter[corrected_mc[k]]["ult"][b]
                  - 2 * plotter[corrected_mc[k]]["fr1s_ewk"][b]

\* ---------------------------------------------------------------------
\* The region selections of __main__ (lines 181-278)
\* ---------------------------------------------------------------------

\* The cuts of the configuration.  A cut is one condition on an event; an
\* event is the set of cuts that hold for it.
Cuts == {"base", "cat", "cut", "p1", "q1", "f1", "p2", "f2", "p3", "f3"}

\* Configurations: the lists may hold one cut, several cuts or none
Configs ==
    { [baseline |-> <<"base">>, extra_selections |-> <<"cat">>,
       extra_cuts |-> x,
       object1 |-> [pass |-> p, fail |-> <<"f1">>],
       object2 |-> [pass |-> <<"p2">>, fail |-> f],
       object3 |-> [pass |-> <<"p3">>, fail |-> <<"f3">>]] :
        x \in {<<>>, <<"cut">>},
        p \in {<<"p1">>, <<"p1", "q1">>},
        f \in {<<"f2">>, <<>>} }

\* ' && '.join(the_selections) applied to an event: every entry holds
Holds(ev, the_selections) ==
    \A k \in 1 .. Len(the_selections) : the_selections[k] \in ev

\* register_tree(label, the_selections, weight): the tree of that label
\* is filled with the events that pass the joined selection
register_tree(label, the_selections) ==
    selections' = (label :> the_selections) @@ selections

Registered(labels) == DOMAIN selections = labels

SelInit ==
    /\ cfg \in Configs
    /\ selections = <<>> /\ event = {} /\ selected = {}
    /\ EstIdle /\ DrvOff /\ McOff /\ ZeeOff /\ ShapeOff /\ DsOff

\* lines 198-199
RegisterLoose ==
    /\ cfg # <<>> /\ Registered({})
    /\ LET loose_selection ==
               cfg.baseline \o cfg.extra_selections \o cfg.extra_cuts
       IN  register_tree("loose", loose_selection)
    /\ UNCHANGED <<cfg, event, selected, estVars, drvVars, mcVars, zeeVars, shapeVars, dsVars>>

\* lines 203-207
RegisterUlt ==
    /\ Registered({"loose"})
    /\ LET ult_selection ==
               cfg.baseline \o cfg.extra_selections \o cfg.extra_cuts
                 \o cfg.object1.pass \o cfg.object2.pass \o cfg.object3.pass
       IN  register_tree("ult", ult_selection)
    /\ UNCHANGED <<cfg, event, selected, estVars, drvVars, mcVars, zeeVars, shapeVars, dsVars>>

\* lines 215-219
RegisterFr1en ==
    /\ Registered({"loose", "ult"})
    /\ LET fr1en_selection ==
               cfg.baseline \o cfg.extra_selections \o cfg.extra_cuts
                 \o cfg.object1.fail \o cfg.object2.pass \o cfg.object3.pass
       IN  register_tree("fr1en", fr1en_selection)
    /\ UNCHANGED <<cfg, event, selected, estVars, drvVars, mcVars, zeeVars, shapeVars, dsVars>>

\* lines 232-236
RegisterFr2en ==
    /\ Registered({"loose", "ult", "fr1en"})
    /\ LET fr2en_selection ==
               cfg.baseline \o cfg.extra_selections \o cfg.extra_cuts
                 \o cfg.object1.pass \o cfg.object2.fail \o cfg.object3.pass
       IN  register_tree("fr2en", fr2en_selection)
    /\ UNCHANGED <<cfg, event, selected, estVars, drvVars, mcVars, zeeVars, shapeVars, dsVars>>

\* Mutant: the double-fake selection takes object 2's 'pass' list.
RegisterFr12en_object2_pass ==
    /\ Registered({"loose", "ult", "fr1en", "fr2en"})
    /\ LET fr12en_selection ==
               cfg.baseline \o cfg.extra_selections \o cfg.extra_cuts
                 \o cfg.object1.fail \o cfg.object2.pass \o cfg.object3.pass
       IN  register_tree("fr12en", fr12en_selection)
    /\ UNCHANGED <<cfg, event, selected, estVars, drvVars, mcVars, zeeVars, shapeVars, dsVars>>

\* lines 249-253
RegisterFr12en ==
    /\ Registered({"loose", "ult", "fr1en", "fr2en"})
    /\ LET fr12en_selection ==
               cfg.baseline \o cfg.extra_selections \o cfg.extra_cuts
                 \o cfg.object1.fail \o cfg.object2.fail \o cfg.object3.pass
       IN  register_tree("fr12en", fr12en_selection)
    /\ UNCHANGED <<cfg, event, selected, estVars, drvVars, mcVars, zeeVars, shapeVars, dsVars>>

\* lines 272-278
RegisterFr123en ==
    /\ Registered({"loose", "ult", "fr1en", "fr2en", "fr12en"})
    /\ LET fr123en_selection ==
               cfg.baseline \o cfg.extra_selections \o cfg.extra_cuts
                 \o cfg.object1.fail \o cfg.object2.fail \o cfg.object3.fail
       IN  register_tree("fr123en", fr123en_selection)
    /\ UNCHANGED <<cfg, event, selected, estVars, drvVars, mcVars, zeeVars, shapeVars, dsVars>>

RegionLabels == {"ult", "fr1en", "fr2en", "fr12en", "fr123en"}

\* the plotter fills the registered trees: an event of the ntuple enters
\* the tree of every label whose selection it passes (events are
\* independent of each other: one event at a time is followed)
FillTrees ==
    /\ Registered({"loose"} \cup RegionLabels)
    /\ event = {} /\ selected = {}
    /\ \E ev \in SUBSET Cuts :
          /\ event' = ev
          /\ selected' = {l \in DOMAIN selections : Holds(ev, selections[l])}
    /\ UNCHANGED <<cfg, selections, estVars, drvVars, mcVars, zeeVars, shapeVars, dsVars>>

SelNext ==
    \/ RegisterLoose \/ RegisterUlt \/ RegisterFr1en \/ RegisterFr2en
    \/ RegisterFr12en \/ RegisterFr123en \/ FillTrees

SelSpec == SelInit /\ [][SelNext]_vars

\* the pass/fail pattern of objects (1, 2, 3) that C17 states
Pattern ==
    [ult |-> <<"pass", "pass", "pass">>,
     fr1en |-> <<"fail", "pass", "pass">>,
     fr2en |-> <<"pass", "fail", "pass">>,
     fr12en |-> <<"fail", "fail", "pass">>,
     fr123en |-> <<"fail", "fail", "fail">>]

\* no object's 'pass' list and 'fail' list both hold for the event
PassFailExclusive ==
    /\ ~(Holds(event, cfg.object1.pass) /\ Holds(event, cfg.object1.fail))
    /\ ~(Holds(event, cfg.object2.pass) /\ Holds(event, cfg.object2.fail))
    /\ ~(Holds(event, cfg.object3.pass) /\ Holds(event, cfg.object3.fail))

\* C17: each of the five region selections is baseline + category +
\* selection cuts followed by the 'pass' or 'fail' list of objects 1, 2, 3
\* in the pattern ult = ppp, fr1en = fpp, fr2en = pfp, fr12en = ffp,
\* fr123en = fff; and an event for which no object's 'pass' and 'fail'
\* lists both hold is selected into at most one of the five regions.
C17_RegionPatterns ==
    /\ \A l \in DOMAIN selections \cap RegionLabels :
          selections[l] =
              selections["loose"] \o cfg.object1[Pattern[l][1]]
                \o cfg.object2[Pattern[l][2]] \o cfg.object3[Pattern[l][3]]
    /\ "loose" \in DOMAIN selections =>
          selections["loose"] =
              cfg.baseline \o cfg.extra_selections \o cfg.extra_cuts
    /\ (selected # {} /\ PassFailExclusive) =>
          Cardinality(selected \cap RegionLabels) <= 1

\* C17 witness: an event with two cuts in a 'pass' list and no cut of an
\* empty 'fail' list is selected into the double-fake region only
C17_Witness ==
    /\ PassFailExclusive
    /\ selected = {"loose", "fr12en"}
    /\ Len(cfg.object1.pass) = 2 /\ cfg.object2.fail # <<>>
    /\ "cut" \in event /\ cfg.extra_cuts # <<>>

\* the precondition matters: an event passing an object's 'pass' and
\* 'fail' lists at once is selected into two regions
C17_Overlap ==
    /\ ~PassFailExclusive
    /\ {"ult", "fr1en"} \subseteq selected

\* ---------------------------------------------------------------------
\* build_zee_selection (src/Higgs/test/vh/zh_zee_selection.py)
\* ---------------------------------------------------------------------
\* Units: Pt and Mass in GeV, RelPFIsoDB in hundredths, AbsEta in tenths,
\* so that every threshold of the selection is an integer.

\* meta.x.bit(n): bit n of the integer x is set
bit(x, n) == (x \div (2 ^ n)) % 2 = 1

\* Mutant: the pT ordering admits equal pT.
build_zee_selection_unordered(row) ==
    /\ 2 * row.e1_e2_SS < 1
    /\ row.e1_e2_Mass < 120
    /\ row.e1_e2_Mass > 60
    /\ row.e1Pt >= row.e2Pt
    /\ row.e1Pt > 20
    /\ row.e2Pt > 10
    /\ row.e1RelPFIsoDB < 25
    /\ row.e2RelPFIsoDB < 25
    /\ bit(row.e1CiCTight, 1)
    /\ bit(row.e2CiCTight, 1)
    /\ 2 * row.e1MissingHits < 1
    /\ 2 * row.e2MissingHits < 1
    /\ row.e1AbsEta < 25
    /\ row.e2AbsEta < 25

\* lines 12-42: the And of the fourteen cuts, applied to one row
build_zee_selection(row) ==
    /\ 2 * row.e1_e2_SS < 1
    /\ row.e1_e2_Mass < 120
    /\ row.e1_e2_Mass > 60
    /\ row.e1Pt > row.e2Pt
    /\ row.e1Pt > 20
    /\ row.e2Pt > 10
    /\ row.e1RelPFIsoDB < 25
    /\ row.e2RelPFIsoDB < 25
    /\ bit(row.e1CiCTight, 1)
    /\ bit(row.e2CiCTight, 1)
    /\ 2 * row.e1MissingHits < 1
    /\ 2 * row.e2MissingHits < 1
    /\ row.e1AbsEta < 25
    /\ row.e2AbsEta < 25

\* Electrons: values on both sides of every threshold
Electron(pt, iso, id, hits, eta) ==
    [Pt |-> pt, RelPFIsoDB |-> iso, CiCTight |-> id, MissingHits |-> hits,
     AbsEta |-> eta]

Electrons ==
    { Electron(pt, 24, 2, 0, 24) : pt \in {10, 11, 20, 21} }
      \cup { Electron(21, 25, 2, 0, 24), Electron(21, 24, 2, 0, 25),
             Electron(21, 24, 2, 1, 24) }
      \cup { Electron(21, 24, id, 0, 24) : id \in {0, 1, 3} }

\* An electron pair of an event, with the pair's charge flag and mass
Candidates ==
    { [a |-> x, b |-> y, SS |-> ss, Mass |-> mass] :
        x \in Electrons, y \in Electrons, ss \in {0, 1},
        mass \in {60, 61, 119, 120} }

\* The ntuple row of the pair with electron first as e1 and second as e2
Row(c, first, second) ==
    [e1_e2_SS |-> c.SS, e1_e2_Mass |-> c.Mass,
     e1Pt |-> first.Pt, e2Pt |-> second.Pt,
     e1RelPFIsoDB |-> first.RelPFIsoDB, e2RelPFIsoDB |-> second.RelPFIsoDB,
     e1CiCTight |-> first.CiCTight, e2CiCTight |-> second.CiCTight,
     e1MissingHits |-> first.MissingHits, e2MissingHits |-> second.MissingHits,
     e1AbsEta |-> first.AbsEta, e2AbsEta |-> second.AbsEta]

\* the two assignments of the pair
Assignments == {"ab", "ba"}

RowOf(c, o) == IF o = "ab" THEN Row(c, c.a, c.b) ELSE Row(c, c.b, c.a)

ZeeInit ==
    /\ candidate \in Candidates
    /\ zee = <<>>
    /\ EstIdle /\ DrvOff /\ McOff /\ SelOff /\ ShapeOff /\ DsOff

\* the selection is applied to one row of the ntuple
SelectRow ==
    /\ candidate # <<>>
    /\ \E o \in Assignments \ DOMAIN zee :
          zee' = (o :> build_zee_selection(RowOf(candidate, o))) @@ zee
    /\ UNCHANGED <<candidate, estVars, drvVars, mcVars, selVars, shapeVars, dsVars>>

ZeeNext == SelectRow

ZeeSpec == ZeeInit /\ [][ZeeNext]_vars

\* every listed cut holds for the pair with electron x as e1 and y as e2
AllCutsHold(x, y) ==
    /\ candidate.SS = 0
    /\ 60 < candidate.Mass /\ candidate.Mass < 120
    /\ x.Pt > y.Pt /\ x.Pt > 20 /\ y.Pt > 10
    /\ \A e \in {x, y} :
          /\ e.RelPFIsoDB < 25
          /\ e.CiCTight \in {2, 3}
          /\ e.MissingHits = 0
          /\ e.AbsEta < 25

\* C18: of the two assignments (e1, e2) and (e2, e1) of an electron pair at
\* most one passes build_zee_selection, and an assignment passes only if
\* every listed cut holds: opposite sign, 60 < mass < 120, e1Pt > e2Pt,
\* e1Pt > 20, e2Pt > 10, and for both electrons isolation < 0.25, ID bit 1,
\* no missing hits, |eta| < 2.5.
C18_OneCandidate ==
    /\ DOMAIN zee = Assignments => ~(zee["ab"] /\ zee["ba"])
    /\ ("ab" \in DOMAIN zee /\ zee["ab"]) =>
          AllCutsHold(candidate.a, candidate.b)
    /\ ("ba" \in DOMAIN zee /\ zee["ba"]) =>
          AllCutsHold(candidate.b, candidate.a)

\* C18 witness: both assignments were tried on a pair just inside the
\* thresholds; the one with the higher-pT electron as e1 passed
C18_Witness ==
    /\ DOMAIN zee = Assignments
    /\ zee["ba"] /\ ~zee["ab"]
    /\ candidate.b.Pt = 21 /\ candidate.a.Pt = 11
    /\ candidate.Mass = 61 /\ candidate.b.CiCTight = 3

\* two electrons of equal pT: neither assignment passes
C18_EqualPt ==
    /\ DOMAIN zee = Assignments
    /\ candidate.a = candidate.b /\ candidate.a.Pt = 21
    /\ candidate.SS = 0 /\ candidate.Mass = 119
    /\ ~zee["ab"] /\ ~zee["ba"]

\* ---------------------------------------------------------------------
\* The shape output of __main__ (lines 100-176 and 603-629)
\* ---------------------------------------------------------------------

\* line 607
masses == <<100, 110, 115, 120, 125, 135, 140, 145, 160>>

\* A string is the sequence of its parts between underscores; a name
\* without an underscore is one part.
Word(w) == <<w>>

\* str(mass)
str(n) == <<n>>

Concat(ss) ==
    LET RECURSIVE cat(_)
        cat(k) == IF k > Len(ss) THEN <<>> ELSE ss[k] \o cat(k + 1)
    IN  cat(1)

\* '_'.join(parts)
join(parts) == Concat(parts)

\* Configurations, each dictionary in the order iteritems() yields it:
\* channels, charge categories, selections (name and 'vars'), and the
\* variables the channel knows how to plot
Selection(name, vs) == [name |-> name, vars |-> vs]

ShapeConfigs ==
    { [channels |-> chs, charge_categories |-> cats, selections |-> sels,
       variables |-> {"Mass", "Pt"}] :
        chs \in {<<"emt">>, <<"emt", "mmt">>},
        cats \in {<<"pos">>, <<"pos", "neg">>},
        sels \in { <<Selection("final", <<"Mass">>)>>,
                   <<Selection("final", <<"Mass">>),
                     Selection("tight", <<"Pt">>)>>,
                   <<Selection("final", <<"Mass", "Pt">>),
                     Selection("tight", <<"Mass">>)>>,
                   <<Selection("tight", <<"Mass">>),
                     Selection("final", <<"Eta", "Mass">>)>> } }

\* the loops of lines 100, 116, 150, 170, outermost first: the bodies of
\* the variable loop in the order they run
VarLoop(c, channel, charge_cat, sel) ==
    [k \in 1 .. Len(sel.vars) |->
        [channel |-> channel, charge_cat |-> charge_cat,
         selection_name |-> sel.name, var |-> sel.vars[k]]]

SelectionLoop(c, channel, charge_cat) ==
    Concat([k \in 1 .. Len(c.selections) |->
               VarLoop(c, channel, charge_cat, c.selections[k])])

ChargeLoop(c, channel) ==
    Concat([k \in 1 .. Len(c.charge_categories) |->
               SelectionLoop(c, channel, c.charge_categories[k])])

ChannelLoop(c) ==
    Concat([k \in 1 .. Len(c.channels) |-> ChargeLoop(c, c.channels[k])])

\* lines 620-622
output_dir_name(it, mass) ==
    join(<<Word(it.channel), Word(it.charge_cat), str(mass), Word(it.var)>>)

Made(name) == \E k \in 1 .. Len(mkdirs) : mkdirs[k].name = name

ShapeInit ==
    /\ shape_cfg \in ShapeConfigs
    /\ todo = ChannelLoop(shape_cfg)
    /\ mass_at = 1 /\ mkdirs = <<>> /\ shape_raised = FALSE
    /\ EstIdle /\ DrvOff /\ McOff /\ SelOff /\ ZeeOff /\ DsOff

Running == shape_cfg # <<>> /\ todo # <<>> /\ ~shape_raised

\* lines 174-176: a variable the channel does not know is skipped
SkipVar ==
    /\ Running
    /\ Head(todo).var \notin shape_cfg.variables
    /\ todo' = Tail(todo)
    /\ UNCHANGED <<shape_cfg, mass_at, mkdirs, shape_raised>>
    /\ UNCHANGED <<estVars, drvVars, mcVars, selVars, zeeVars, dsVars>>

\* the mass loop moves on; after the last mass the variable loop does
NextMass ==
    IF mass_at < Len(masses)
    THEN mass_at' = mass_at + 1 /\ todo' = todo
    ELSE mass_at' = 1 /\ todo' = Tail(todo)

MkdirCall(it, mass) == [name |-> output_dir_name(it, mass), it |-> it, mass |-> mass]

\* lines 607-629 for one mass: the directory is made and the five
\* histograms are written into it
WriteShapes ==
    /\ Running
    /\ Head(todo).var \in shape_cfg.variables
    /\ LET mkdir == MkdirCall(Head(todo), masses[mass_at])
       IN  /\ ~Made(mkdir.name)
           /\ mkdirs' = Append(mkdirs, mkdir)
    /\ NextMass
    /\ UNCHANGED <<shape_cfg, shape_raised>>
    /\ UNCHANGED <<estVars, drvVars, mcVars, selVars, zeeVars, dsVars>>

\* the same for a name that shape_file already holds, when mkdir hands
\* back a directory: the five histograms are written next to the five of
\* the earlier iteration
WriteShapesAgain ==
    /\ Running
    /\ Head(todo).var \in shape_cfg.variables
    /\ LET mkdir == MkdirCall(Head(todo), masses[mass_at])
       IN  /\ Made(mkdir.name)
           /\ mkdirs' = Append(mkdirs, mkdir)
    /\ NextMass
    /\ UNCHANGED <<shape_cfg, shape_raised>>
    /\ UNCHANGED <<estVars, drvVars, mcVars, selVars, zeeVars, dsVars>>

\* the same, when mkdir hands back no directory: output_dir.cd() raises
\* and the driver stops
MkdirFails ==
    /\ Running
    /\ Head(todo).var \in shape_cfg.variables
    /\ LET mkdir == MkdirCall(Head(todo), masses[mass_at])
       IN  /\ Made(mkdir.name)
           /\ mkdirs' = Append(mkdirs, mkdir)
    /\ shape_raised' = TRUE
    /\ UNCHANGED <<shape_cfg, todo, mass_at>>
    /\ UNCHANGED <<estVars, drvVars, mcVars, selVars, zeeVars, dsVars>>

ShapeNext == SkipVar \/ WriteShapes \/ WriteShapesAgain \/ MkdirFails

ShapeSpec == ShapeInit /\ [][ShapeNext]_vars

\* C21: over one run of the driver no directory name is passed to
\* shape_file.mkdir twice: no two iterations of the channel, charge
\* category, selection, variable and mass loops write into one directory.
C21_DirectoryOnce ==
    \A j \in 1 .. Len(mkdirs) : \A k \in 1 .. Len(mkdirs) :
        j # k => mkdirs[j].name # mkdirs[k].name

\* What holds instead: two calls with one name come from two selections
\* of the same channel and charge category that plot the same variable,
\* for the same mass.
SameNameAcrossSelections ==
    \A j \in 1 .. Len(mkdirs) : \A k \in 1 .. Len(mkdirs) :
        (j # k /\ mkdirs[j].name = mkdirs[k].name) =>
            /\ mkdirs[j].it.selection_name # mkdirs[k].it.selection_name
            /\ mkdirs[j].it.channel = mkdirs[k].it.channel
            /\ mkdirs[j].it.charge_cat = mkdirs[k].it.charge_cat
            /\ mkdirs[j].it.var = mkdirs[k].it.var
            /\ mkdirs[j].mass = mkdirs[k].mass

\* ---------------------------------------------------------------------
\* The data samples of src/MetaData/python/data8TeV.py (lines 12-14, 200-255)
\* ---------------------------------------------------------------------

\* 'data_%s_...' % pd and 'data_%s' % pd: a name is the sequence of the
\* pieces of its format string with pd put in
subsample_name(pd, era) == <<"data_", pd, era>>

sample_name(pd) == <<"data_", pd>>

\* lines 200-230
build_data_set(pd, analyses, who) ==
    LET subsample_dict ==
            (subsample_name(pd, "_Run2012A_PromptReco_v1") :>
                [firstRun |-> 190450, lastRun |-> 193686,
                 analyses |-> analyses, responsible |-> who])
         @@ (subsample_name(pd, "_Run2012B_PromptReco_v1_a") :>
                [firstRun |-> 193752, lastRun |-> 194479,
                 analyses |-> analyses, responsible |-> who])
         @@ (subsample_name(pd, "_Run2012B_PromptReco_v1_b") :>
                [firstRun |-> 194478, lastRun |-> 195396,
                 analyses |-> analyses, responsible |-> who])
        sample_dict == sample_name(pd) :> DOMAIN subsample_dict
    IN  <<subsample_dict, sample_dict>>

\* dict.update(other): the entries of other replace or extend the dict's
update(dict, other) == other @@ dict

\* lines 233-255: the six calls, in order
PrimaryDatasets ==
    << [pd |-> "DoubleMu", analyses |-> {"VH", "Mu", "4L"}, who |-> "Ian"],
       [pd |-> "MuEG", analyses |-> {"VH", "HTT", "Mu"}, who |-> "Evan"],
       [pd |-> "DoubleElectron", analyses |-> {"VH", "4L"}, who |-> "Ian"],
       [pd |-> "SingleMu", analyses |-> {"Tau", "Mu"}, who |-> "Maria"],
       [pd |-> "SingleElectron", analyses |-> {"Tau", "E", "Wjets"},
        who |-> "Maria"],
       [pd |-> "TauPlusX", analyses |-> {"HTT"}, who |-> "Josh"] >>

\* lines 14-192: the simulated samples that datadefs holds before the data
\* samples are added (two of them stand for all)
SimulatedSamples ==
    (<<"WplusJets_madgraph">> :> [analyses |-> {"HTT"}, responsible |-> "Maria"])
      @@ (<<"Zjets_M50">> :> [analyses |-> {"HTT"}, responsible |-> "Josh"])

\* Run numbers at and next to every firstRun and lastRun
Runs ==
    UNION { {r - 1, r, r + 1} :
            r \in {190450, 193686, 193752, 194479, 194478, 195396} }

DsInit ==
    /\ datadefs = SimulatedSamples
    /\ data_name_map = <<>>
    /\ pd_at = 1 /\ step = "build"
    /\ data_pd = <<>> /\ list_pd = <<>>
    /\ run \in Runs
    /\ EstIdle /\ DrvOff /\ McOff /\ SelOff /\ ZeeOff /\ ShapeOff

\* data_X, list_X = build_data_set(...)
BuildDataSet ==
    /\ step = "build" /\ pd_at \in 1 .. Len(PrimaryDatasets)
    /\ LET a == PrimaryDatasets[pd_at]
           built == build_data_set(a.pd, a.analyses, a.who)
       IN  data_pd' = built[1] /\ list_pd' = built[2]
    /\ step' = "datadefs"
    /\ UNCHANGED <<datadefs, data_name_map, pd_at, run>>
    /\ UNCHANGED <<estVars, drvVars, mcVars, selVars, zeeVars, shapeVars>>

\* datadefs.update(data_X)
UpdateDatadefs ==
    /\ step = "datadefs"
    /\ datadefs' = update(datadefs, data_pd)
    /\ step' = "name_map"
    /\ UNCHANGED <<data_name_map, pd_at, data_pd, list_pd, run>>
    /\ UNCHANGED <<estVars, drvVars, mcVars, selVars, zeeVars, shapeVars>>

\* data_name_map.update(list_X)
UpdateNameMap ==
    /\ step = "name_map"
    /\ data_name_map' = update(data_name_map, list_pd)
    /\ pd_at' = pd_at + 1 /\ step' = "build"
    /\ UNCHANGED <<datadefs, data_pd, list_pd, run>>
    /\ UNCHANGED <<estVars, drvVars, mcVars, selVars, zeeVars, shapeVars>>

DsNext == BuildDataSet \/ UpdateDatadefs \/ UpdateNameMap

DsSpec == DsInit /\ [][DsNext]_vars

\* the subsamples of a primary dataset whose run range holds the run
Owners(sample) ==
    { x \in data_name_map[sample] :
        datadefs[x].firstRun <= run /\ run <= datadefs[x].lastRun }

NamesAreKeys ==
    \A sample \in DOMAIN data_name_map :
        data_name_map[sample] \subseteq DOMAIN datadefs

\* C22: for every primary dataset in data_name_map, every listed name is a
\* key of datadefs, the [firstRun, lastRun] ranges of its subsamples are
\* pairwise disjoint, and no run number belongs to two of them.
C22_RunRangesDisjoint ==
    /\ NamesAreKeys
    /\ \A sample \in DOMAIN data_name_map :
          /\ \A x \in data_name_map[sample] : \A y \in data_name_map[sample] :
                x # y =>
                   \/ datadefs[x].lastRun < datadefs[y].firstRun
                   \/ datadefs[y].lastRun < datadefs[x].firstRun
          /\ Cardinality(Owners(sample)) <= 1

\* What holds instead: the names are keys of datadefs at every step, and a
\* run belongs to two subsamples exactly when it is 194478 or 194479, the
\* two being Run2012B_a and Run2012B_b.
RunRangesAsCoded ==
    /\ NamesAreKeys
    /\ \A sample \in DOMAIN data_name_map :
          /\ Cardinality(Owners(sample)) <= 2
          /\ Cardinality(Owners(sample)) = 2 <=>
                run \in {194478, 194479}
          /\ Cardinality(Owners(sample)) = 2 =>
                Owners(sample) =
                    { subsample_name(sample[2], "_Run2012B_PromptReco_v1_a"),
                      subsample_name(sample[2], "_Run2012B_PromptReco_v1_b") }

====
